---------------------------- MODULE Spec2Model ----------------------------
(***************************************************************************)
(* A model of hangman.py: the word selection (choose_word), the guess      *)
(* validation (check_valid_input, try_update_letter_guessed), the masked   *)
(* word (show_hidden_word), the win test (check_win), the guess loop       *)
(* (hangman) and the round loop (main).                                    *)
(*                                                                         *)
(* A Python str is a sequence of code points (97 is 'a', 65 is 'A', 53 is  *)
(* '5', 32 is ' ', 95 is '_'); a Python list of str is a sequence of such  *)
(* sequences.                                                              *)
(***************************************************************************)
EXTENDS Integers, Sequences, FiniteSets, TLC

VARIABLES
    pc,                  \* where the program is
    word_list_path,      \* main: the current word-list file
    first_round,         \* main: no round has been started yet
    index,               \* choose_word: the index argument
    secret_word,         \* hangman: the word to guess
    old_letters_guessed, \* hangman: the list of accepted letters
    num_of_tries,        \* hangman: the counter of wrong guesses
    letter_guessed,      \* check_valid_input: the letter argument
    ret,                 \* the value a called function returned
    printed              \* what the last step printed, in order

vars == <<pc, word_list_path, first_round, index, secret_word,
          old_letters_guessed, num_of_tries, letter_guessed, ret, printed>>

---------------------------------------------------------------------------
(* Program constants *)

MAX_TRIES == 6

\* 'a' and 'z', the ends of the accepted range
LETTER_A == 97
LETTER_Z == 122

X_STR == <<88>>
ARROW_STR == <<32, 45, 62, 32>>
SAD_FACE == <<58, 40>>
WIN_STR == <<87, 73, 78>>
LOSE_STR == <<76, 79, 83, 69>>
UNDERSCORE == <<95>>
SPACE == <<32>>

---------------------------------------------------------------------------
(* Bounds of the model *)

\* indices offered to choose_word: -MaxIndex .. MaxIndex
MaxIndex == 6

\* the longest raw guess typed
MaxGuessLen == 2

\* the longest guessed-letter list handed to a function called on its own
MaxListLen == 2

\* the longest secret word handed to show_hidden_word called on its own
MaxWordLen == 3

---------------------------------------------------------------------------
(* Python's str and list operations *)

\* str.lower(), on ASCII
Lower(s) == [i \in 1..Len(s) |-> IF s[i] \in 65..90 THEN s[i] + 32 ELSE s[i]]

\* s < t and s <= t on str: lexicographic by code point
RECURSIVE StrLT(_, _)
StrLT(s, t) ==
    IF t = <<>> THEN FALSE
    ELSE IF s = <<>> THEN TRUE
    ELSE IF s[1] # t[1] THEN s[1] < t[1]
    ELSE StrLT(Tail(s), Tail(t))

StrLE(s, t) == s = t \/ StrLT(s, t)

\* x in lst, for a list
InList(x, lst) == \E i \in 1..Len(lst) : lst[i] = x

\* s in t, for two str: s is a substring of t
InStr(s, t) == \E i \in 0..(Len(t) - Len(s)) : SubSeq(t, i + 1, i + Len(s)) = s

\* sep.join(lst)
RECURSIVE Join(_, _)
Join(sep, lst) ==
    IF lst = <<>> THEN <<>>
    ELSE IF Len(lst) = 1 THEN lst[1]
    ELSE lst[1] \o sep \o Join(sep, Tail(lst))

\* sorted(lst), for a list of str
RECURSIVE Insert(_, _)
Insert(x, lst) ==
    IF lst = <<>> THEN <<x>>
    ELSE IF StrLT(x, lst[1]) THEN <<x>> \o lst
    ELSE <<lst[1]>> \o Insert(x, Tail(lst))

RECURSIVE Sorted(_)
Sorted(lst) ==
    IF lst = <<>> THEN <<>>
    ELSE Insert(lst[Len(lst)], Sorted(SubSeq(lst, 1, Len(lst) - 1)))

\* str.split(): the maximal runs of non-whitespace characters
IsSpace(c) == c \in {32, 9, 10, 13}

RECURSIVE SplitFrom(_, _, _)
SplitFrom(text, i, word) ==
    IF i > Len(text)
    THEN IF word = <<>> THEN <<>> ELSE <<word>>
    ELSE IF IsSpace(text[i])
         THEN IF word = <<>>
              THEN SplitFrom(text, i + 1, <<>>)
              ELSE <<word>> \o SplitFrom(text, i + 1, <<>>)
         ELSE SplitFrom(text, i + 1, Append(word, text[i]))

Split(text) == SplitFrom(text, 1, <<>>)

\* a % b for b > 0: Python takes the sign of the divisor (floored division)
PyMod(a, b) == a - b * (a \div b)

---------------------------------------------------------------------------
(* The base functions *)

\* show_hidden_word with the characters joined by nothing
show_hidden_word_NoSeparator(secret, old) ==
    LET revealed_word_chars_list ==
            [p \in 1..Len(secret) |->
                IF ~InList(<<secret[p]>>, old) THEN UNDERSCORE ELSE <<secret[p]>>]
    IN  Join(<<>>, revealed_word_chars_list)

\* show_hidden_word showing only the letter guessed last
show_hidden_word_LastGuessOnly(secret, old) ==
    LET revealed_word_chars_list ==
            [p \in 1..Len(secret) |->
                IF old = <<>> \/ old[Len(old)] # <<secret[p]>>
                THEN UNDERSCORE ELSE <<secret[p]>>]
    IN  Join(SPACE, revealed_word_chars_list)

\* show_hidden_word(secret_word, old_letters_guessed)
show_hidden_word(secret, old) ==
    LET revealed_word_chars_list ==
            [p \in 1..Len(secret) |->
                IF ~InList(<<secret[p]>>, old) THEN UNDERSCORE ELSE <<secret[p]>>]
    IN  Join(SPACE, revealed_word_chars_list)

\* check_valid_input without the test for an earlier guess of the letter
check_valid_input_NoRepeatTest(letter, old) ==
    /\ Len(letter) = 1
    /\ StrLE(<<LETTER_A>>, letter) /\ StrLE(letter, <<LETTER_Z>>)

\* check_valid_input without the test of the length
check_valid_input_NoLengthTest(letter, old) ==
    /\ StrLE(<<LETTER_A>>, letter) /\ StrLE(letter, <<LETTER_Z>>)
    /\ ~InList(letter, old)

\* check_valid_input(letter_guessed, old_letters_guessed)
check_valid_input(letter, old) ==
    /\ Len(letter) = 1
    /\ StrLE(<<LETTER_A>>, letter) /\ StrLE(letter, <<LETTER_Z>>)
    /\ ~InList(letter, old)

\* try_update_letter_guessed appending the letter as typed
try_update_letter_guessed_AppendsRaw(letter, old) ==
    LET letter_lower == Lower(letter)
    IN  IF ~check_valid_input(letter_lower, old)
        THEN [ret |-> FALSE, old |-> old,
              printed |-> <<X_STR, Join(ARROW_STR, Sorted(old))>>]
        ELSE [ret |-> TRUE, old |-> Append(old, letter), printed |-> <<>>]

\* try_update_letter_guessed(letter_guessed, old_letters_guessed): the value
\* returned, the list afterwards and what was printed
try_update_letter_guessed(letter, old) ==
    LET letter_lower == Lower(letter)
    IN  IF ~check_valid_input(letter_lower, old)
        THEN [ret |-> FALSE, old |-> old,
              printed |-> <<X_STR, Join(ARROW_STR, Sorted(old))>>]
        ELSE [ret |-> TRUE, old |-> Append(old, letter_lower), printed |-> <<>>]

\* check_win(secret_word, old_letters_guessed)
check_win(secret, old) ==
    \A i \in 1..Len(secret) : InList(<<secret[i]>>, old)

\* words_list[i], for a Python list: zero-based, negative i counts from the end
PyIndex(lst, i) ==
    IF 0 <= i /\ i < Len(lst) THEN [exc |-> "none", val |-> lst[i + 1]]
    ELSE IF -Len(lst) <= i /\ i < 0 THEN [exc |-> "none", val |-> lst[Len(lst) + i + 1]]
    ELSE [exc |-> "IndexError", val |-> <<>>]

\* the files the player can name: path -> content (long.txt holds one word of
\* 22 distinct letters, abcdefghijklmnopqrstuv)
FileText(path) ==
    CASE path = "a_ab.txt"    -> <<97, 32, 97, 98, 10>>
      [] path = "cat_dog.txt" -> <<99, 97, 116, 32, 100, 111, 103>>
      [] path = "three.txt"   -> <<97, 98, 97, 10, 98, 9, 32, 99, 97, 98, 10>>
      [] path = "one.txt"     -> <<32, 98, 97, 10>>
      [] path = "five.txt"    -> <<97, 32, 98, 32, 99, 32, 100, 32, 101>>
      [] path = "empty.txt"   -> <<32, 10>>
      [] path = "long.txt"    -> [i \in 1..22 |-> 96 + i]

Paths ==
    {"a_ab.txt", "cat_dog.txt", "three.txt", "one.txt", "five.txt", "empty.txt",
     "long.txt"}

\* os.path.isfile(path)
isfile(path) == path \in Paths

\* choose_word without the step from the 1-based index to the list's indexing
choose_word_NoDecrement(file_path, idx) ==
    LET words_list == Split(FileText(file_path))
        words_num  == Len(words_list)
    IN  IF words_num = 0
        THEN [exc |-> "ZeroDivisionError", val |-> <<>>]
        ELSE PyIndex(words_list, PyMod(idx, words_num))

\* choose_word without the circular count: the list is indexed as it stands
choose_word_NoModulo(file_path, idx) ==
    LET words_list == Split(FileText(file_path))
        index1     == idx - 1
    IN  PyIndex(words_list, index1)

\* choose_word(file_path, index): the word returned, or the exception raised
choose_word(file_path, idx) ==
    LET words_list == Split(FileText(file_path))
        words_num  == Len(words_list)
        index1     == idx - 1
    IN  IF words_num = 0
        THEN [exc |-> "ZeroDivisionError", val |-> <<>>]
        ELSE PyIndex(words_list, PyMod(index1, words_num))

\* HANGMAN_PHOTOS: the picture of each stage, abridged to "x" and the stage digit
HANGMAN_PHOTOS == [n \in 0..6 |-> <<120, 48 + n>>]

\* the KeyError of a stage that HANGMAN_PHOTOS does not hold
KEY_ERROR == <<75, 101, 121, 69, 114, 114, 111, 114>>

\* print_hangman(num_of_tries): the text printed, or the exception raised
print_hangman(n) ==
    IF n \in DOMAIN HANGMAN_PHOTOS THEN HANGMAN_PHOTOS[n] ELSE KEY_ERROR

\* print_show_hidden_word_box(secret_word, old_letters_guessed): the text printed
print_show_hidden_word_box(secret, old) ==
    LET bottom_top_box_line == [k \in 1..(Len(secret) * 2 + 5) |-> 9552]
    IN  <<9556>> \o bottom_top_box_line \o <<9559, 10>>
        \o <<9553, 32, 32, 32>> \o show_hidden_word(secret, old) \o <<32, 32, 32, 9553, 10>>
        \o <<9562>> \o bottom_top_box_line \o <<9565>>

\* show_current_game_state(num_of_tries, secret_word, old_letters_guessed)
show_current_game_state(n, secret, old) ==
    IF print_hangman(n) = KEY_ERROR
    THEN <<KEY_ERROR>>
    ELSE <<print_hangman(n), print_show_hidden_word_box(secret, old)>>

\* hangman_turn without the break after WIN
hangman_turn_NoBreak(secret, old, n, raw) ==
    LET upd == try_update_letter_guessed(raw, old)
    IN  IF upd.ret
        THEN IF InStr(raw, secret)
             THEN LET won == check_win(secret, upd.old)
                  IN  [old |-> upd.old, num |-> n,
                       printed |-> <<print_show_hidden_word_box(secret, upd.old)>>
                                   \o (IF won THEN <<WIN_STR>> ELSE <<>>),
                       pc |-> "guess"]
             ELSE LET shown == show_current_game_state(n + 1, secret, upd.old)
                  IN  IF shown = <<KEY_ERROR>>
                      THEN [old |-> upd.old, num |-> n + 1,
                            printed |-> <<SAD_FACE>> \o shown, pc |-> "crashed"]
                      ELSE [old |-> upd.old, num |-> n + 1,
                            printed |-> <<SAD_FACE>> \o shown
                                \o (IF ~(n + 1 < MAX_TRIES) THEN <<LOSE_STR>> ELSE <<>>),
                            pc |-> IF n + 1 < MAX_TRIES THEN "guess" ELSE "play_again"]
        ELSE [old |-> old, num |-> n, printed |-> upd.printed, pc |-> "guess"]

\* hangman_turn with the loop going on while num_of_tries <= MAX_TRIES
hangman_turn_LoopLE(secret, old, n, raw) ==
    LET upd == try_update_letter_guessed(raw, old)
    IN  IF upd.ret
        THEN IF InStr(raw, secret)
             THEN LET won == check_win(secret, upd.old)
                  IN  [old |-> upd.old, num |-> n,
                       printed |-> <<print_show_hidden_word_box(secret, upd.old)>>
                                   \o (IF won THEN <<WIN_STR>> ELSE <<>>),
                       pc |-> IF won THEN "play_again" ELSE "guess"]
             ELSE LET shown == show_current_game_state(n + 1, secret, upd.old)
                  IN  IF shown = <<KEY_ERROR>>
                      THEN [old |-> upd.old, num |-> n + 1,
                            printed |-> <<SAD_FACE>> \o shown, pc |-> "crashed"]
                      ELSE [old |-> upd.old, num |-> n + 1,
                            printed |-> <<SAD_FACE>> \o shown
                                \o (IF ~(n + 1 < MAX_TRIES) THEN <<LOSE_STR>> ELSE <<>>),
                            pc |-> IF n + 1 <= MAX_TRIES THEN "guess" ELSE "play_again"]
        ELSE [old |-> old, num |-> n, printed |-> upd.printed, pc |-> "guess"]

\* one pass of hangman's while loop on the raw input: the locals afterwards,
\* what was printed and where the loop goes
hangman_turn(secret, old, n, raw) ==
    LET upd == try_update_letter_guessed(raw, old)
    IN  IF upd.ret
        THEN IF InStr(raw, secret)
             THEN LET won == check_win(secret, upd.old)
                  IN  [old |-> upd.old, num |-> n,
                       printed |-> <<print_show_hidden_word_box(secret, upd.old)>>
                                   \o (IF won THEN <<WIN_STR>> ELSE <<>>),
                       pc |-> IF won THEN "play_again" ELSE "guess"]
             ELSE LET shown == show_current_game_state(n + 1, secret, upd.old)
                  IN  IF shown = <<KEY_ERROR>>
                      THEN [old |-> upd.old, num |-> n + 1,
                            printed |-> <<SAD_FACE>> \o shown, pc |-> "crashed"]
                      ELSE [old |-> upd.old, num |-> n + 1,
                            printed |-> <<SAD_FACE>> \o shown
                                \o (IF ~(n + 1 < MAX_TRIES) THEN <<LOSE_STR>> ELSE <<>>),
                            pc |-> IF n + 1 < MAX_TRIES THEN "guess" ELSE "play_again"]
        ELSE [old |-> old, num |-> n, printed |-> upd.printed, pc |-> "guess"]

---------------------------------------------------------------------------
(* The inputs of the player *)

\* the characters typed as a one-character guess: a..g, A, B, 5
TypedChars == (97..103) \cup {65, 66, 53}

\* the characters of the longer guesses
LongChars == {97, 65}

RECURSIVE StringsOver(_, _)
StringsOver(chars, n) ==
    IF n = 0 THEN {<<>>}
    ELSE LET shorter == StringsOver(chars, n - 1)
         IN  shorter \cup {Append(s, c) : s \in {t \in shorter : Len(t) = n - 1}, c \in chars}

RawGuesses ==
    StringsOver(TypedChars, 1) \cup StringsOver(LongChars, MaxGuessLen)

TypedPaths == {"a_ab.txt", "empty.txt", "nofile"}

Indices == (-MaxIndex)..MaxIndex

---------------------------------------------------------------------------
(* main and hangman as a state machine *)

Init ==
    /\ pc = "word_list_path"
    /\ word_list_path = ""
    /\ first_round = TRUE
    /\ index = 0
    /\ secret_word = <<>>
    /\ old_letters_guessed = <<>>
    /\ num_of_tries = 0
    /\ letter_guessed = <<>>
    /\ ret = <<>>
    /\ printed = <<>>

\* change_word_list(): a path that is no file is asked for again
ChangeWordList(path) ==
    /\ pc = "word_list_path"
    /\ IF isfile(path)
       THEN /\ word_list_path' = path
            /\ first_round' = FALSE
            /\ pc' = "secret_word_index"
            /\ printed' = <<"Using word-list path">>
       ELSE /\ printed' = <<"The path specified either doesn't exist or is not of a file.">>
            /\ UNCHANGED <<word_list_path, first_round, pc>>
    /\ UNCHANGED <<index, secret_word, old_letters_guessed, num_of_tries,
                   letter_guessed, ret>>

\* ChangeSecretWord with hangman's list and counter kept from call to call
\* (as a mutable default argument or a module-level variable would be)
ChangeSecretWord_KeepsLocals(idx) ==
    /\ pc = "secret_word_index"
    /\ LET chosen == choose_word(word_list_path, idx)
       IN  IF chosen.exc # "none"
           THEN /\ pc' = "crashed"
                /\ printed' = <<>>
                /\ UNCHANGED <<secret_word, old_letters_guessed, num_of_tries>>
           ELSE /\ secret_word' = chosen.val
                /\ UNCHANGED <<old_letters_guessed, num_of_tries>>
                /\ printed' = show_current_game_state(num_of_tries, chosen.val,
                                                      old_letters_guessed)
                /\ pc' = IF num_of_tries < MAX_TRIES THEN "guess" ELSE "play_again"
    /\ UNCHANGED <<word_list_path, first_round, index, letter_guessed, ret>>

\* change_secret_word(word_list_path) on the integer typed, then the entry of
\* hangman(secret_word) up to its first prompt; an exception of choose_word
\* is caught nowhere and ends the process, with nothing printed by the program
ChangeSecretWord(idx) ==
    /\ pc = "secret_word_index"
    /\ LET chosen == choose_word(word_list_path, idx)
       IN  IF chosen.exc # "none"
           THEN /\ pc' = "crashed"
                /\ printed' = <<>>
                /\ UNCHANGED <<secret_word, old_letters_guessed, num_of_tries>>
           ELSE /\ secret_word' = chosen.val
                /\ old_letters_guessed' = <<>>
                /\ num_of_tries' = 0
                /\ printed' = show_current_game_state(0, chosen.val, <<>>)
                /\ pc' = IF 0 < MAX_TRIES THEN "guess" ELSE "play_again"
    /\ UNCHANGED <<word_list_path, first_round, index, letter_guessed, ret>>

\* one pass of the while loop of hangman, on the raw input typed
Guess(raw) ==
    /\ pc = "guess"
    /\ LET turn == hangman_turn(secret_word, old_letters_guessed, num_of_tries, raw)
       IN  /\ old_letters_guessed' = turn.old
           /\ num_of_tries' = turn.num
           /\ printed' = turn.printed
           /\ pc' = turn.pc
    /\ UNCHANGED <<word_list_path, first_round, index, secret_word, letter_guessed, ret>>

\* hangman returns; "Would you like to play another game?". The locals of
\* hangman are dead from here on: they keep their last values until hangman
\* is entered again and assigns them
PlayAgain(yes) ==
    /\ pc = "play_again"
    /\ pc' = IF yes THEN "switch_word_list" ELSE "quit"
    /\ printed' = IF yes THEN <<"Starting another game">> ELSE <<"Quitting">>
    /\ UNCHANGED <<word_list_path, first_round, index, secret_word,
                   old_letters_guessed, num_of_tries, letter_guessed, ret>>

\* "Would you like to switch to a different word-list?"
SwitchWordList(yes) ==
    /\ pc = "switch_word_list"
    /\ pc' = IF yes THEN "word_list_path" ELSE "secret_word_index"
    /\ printed' = IF yes THEN <<>> ELSE <<"Playing with the same word-list">>
    /\ UNCHANGED <<word_list_path, first_round, index, secret_word,
                   old_letters_guessed, num_of_tries, letter_guessed, ret>>

Next ==
    \/ \E path \in TypedPaths : ChangeWordList(path)
    \/ \E idx \in Indices : ChangeSecretWord(idx)
    \/ \E raw \in RawGuesses : Guess(raw)
    \/ \E yes \in BOOLEAN : PlayAgain(yes)
    \/ \E yes \in BOOLEAN : SwitchWordList(yes)

Spec == Init /\ [][Next]_vars

---------------------------------------------------------------------------
(* The vocabulary of the claims, stated on the program's state *)

\* the distinct letters of a word
LettersOf(word) == {word[i] : i \in 1..Len(word)}

\* GuessedLetters as a set of characters
GuessedLetters == {old_letters_guessed[i][1] : i \in 1..Len(old_letters_guessed)}

\* the entries of the guessed list whose letter does not occur in the secret word
Misses ==
    {i \in 1..Len(old_letters_guessed) :
        old_letters_guessed[i][1] \notin LettersOf(secret_word)}

\* every distinct letter of the secret word has been guessed
Covered == LettersOf(secret_word) \subseteq GuessedLetters

\* a playthrough is going on or has just ended
InPlaythrough == pc \in {"guess", "play_again"}

AwaitingGuess == pc = "guess"

\* the loop has ended and WIN, respectively LOSE, was reported
Won == pc = "play_again" /\ InList(WIN_STR, printed)

Lost == pc = "play_again" /\ InList(LOSE_STR, printed)

\* what a turn leaves of the session: GuessedLetters, wrongGuessCount, status
Outcome(turn) ==
    <<turn.old, turn.num,
      IF turn.pc = "guess" THEN "ongoing"
      ELSE IF InList(WIN_STR, turn.printed) THEN "Won"
      ELSE IF InList(LOSE_STR, turn.printed) THEN "Lost"
      ELSE "ended">>

\* the letters of a set in alphabetical order, each as a one-character str
RECURSIVE Alphabetical(_)
Alphabetical(S) ==
    IF S = {} THEN <<>>
    ELSE LET least == CHOOSE c \in S : \A d \in S : c <= d
         IN  <<<<least>>>> \o Alphabetical(S \ {least})

\* the raw guess is inadmissible: not one character, or its lowercased
\* character is outside a-z, or that letter has been guessed
Inadmissible(raw) ==
    \/ Len(raw) = 0
    \/ Len(raw) >= 2
    \/ /\ Len(raw) = 1
       /\ LET c == IF raw[1] \in 65..90 THEN raw[1] + 32 ELSE raw[1]
          IN  c \notin 97..122 \/ c \in GuessedLetters

---------------------------------------------------------------------------
(* C1: in every state of a playthrough, num_of_tries equals the number of  *)
(* guessed letters that do not occur in the secret word.                   *)
C1_WrongCountIsMisses ==
    InPlaythrough => num_of_tries = Cardinality(Misses)

(* C2: the game is won iff every distinct letter of the secret word is in  *)
(* GuessedLetters: a covered word is never still awaiting a guess, and     *)
(* Won is never reported with a letter missing.                            *)
C2_WonIffCovered ==
    InPlaythrough => (Won <=> Covered)

(* C3: the game is lost iff num_of_tries = 6 and it is not won; Won and    *)
(* Lost exclude each other; no playthrough is Lost with every letter of    *)
(* the secret word guessed; six wrong guesses without cover is Lost.       *)
C3_LostIffSixAndNotWon ==
    InPlaythrough =>
        /\ Lost <=> (num_of_tries = MAX_TRIES /\ ~Won)
        /\ ~(Won /\ Lost)
        /\ Lost => ~Covered
        /\ (num_of_tries = MAX_TRIES /\ ~Covered) => Lost

(* C4: within a playthrough num_of_tries never decreases; it grows, by 1,  *)
(* only on a turn that accepts a letter not occurring in the secret word;  *)
(* a turn that accepts a letter of the secret word, or rejects the guess,  *)
(* leaves it unchanged.                                                    *)
C4_WrongCountMonotone ==
    [][AwaitingGuess =>
        LET accepted == Len(old_letters_guessed') = Len(old_letters_guessed) + 1
            letter   == old_letters_guessed'[Len(old_letters_guessed')][1]
        IN  /\ num_of_tries' >= num_of_tries
            /\ num_of_tries' # num_of_tries =>
                  /\ num_of_tries' = num_of_tries + 1
                  /\ accepted
                  /\ letter \notin LettersOf(secret_word)
            /\ (accepted /\ letter \in LettersOf(secret_word)) =>
                  num_of_tries' = num_of_tries
            /\ ~accepted => num_of_tries' = num_of_tries
      ]_vars

(* C5: in every state awaiting a guess and for every letter x of a-z, the  *)
(* uppercase form of x leaves the same GuessedLetters, num_of_tries and    *)
(* status as the lowercase form of x.                                      *)
C5_CaseInsensitive ==
    AwaitingGuess =>
        \A x \in 97..122 :
            Outcome(hangman_turn(secret_word, old_letters_guessed, num_of_tries, <<x - 32>>))
            = Outcome(hangman_turn(secret_word, old_letters_guessed, num_of_tries, <<x>>))

(* C6: in every state awaiting a guess, an inadmissible raw guess leaves   *)
(* GuessedLetters and num_of_tries as they are, keeps the session awaiting *)
(* a guess, and prints X and then the guessed letters in alphabetical      *)
(* order.                                                                  *)
C6_RejectionChangesNothing ==
    AwaitingGuess =>
        \A raw \in RawGuesses :
            Inadmissible(raw) =>
                LET turn == hangman_turn(secret_word, old_letters_guessed, num_of_tries, raw)
                IN  /\ turn.old = old_letters_guessed
                    /\ turn.num = num_of_tries
                    /\ turn.pc = "guess"
                    /\ turn.printed =
                          <<X_STR, Join(ARROW_STR, Alphabetical(GuessedLetters))>>

\* a guess was rejected with two letters guessed out of alphabetical order
C6_Witness ==
    /\ AwaitingGuess
    /\ Len(old_letters_guessed) = 2
    /\ old_letters_guessed[1][1] > old_letters_guessed[2][1]
    /\ Len(printed) = 2
    /\ printed[1] = X_STR

---------------------------------------------------------------------------
(* The base functions called on their own, on arguments from bounded sets *)

\* the lists of at most n one-character str over chars
ListsOver(chars, n) == StringsOver({<<c>> : c \in chars}, n)

\* characters at and around the ends of a-z, an uppercase letter, a digit
ValidatorChars == {96, 97, 98, 122, 123, 65, 53}

InitValid ==
    /\ pc = "check_valid_input"
    /\ letter_guessed \in StringsOver(ValidatorChars, MaxGuessLen)
    /\ old_letters_guessed \in ListsOver({97, 98, 122}, MaxListLen)
    /\ word_list_path = ""
    /\ first_round = TRUE
    /\ index = 0
    /\ secret_word = <<>>
    /\ num_of_tries = 0
    /\ ret = <<>>
    /\ printed = <<>>

CallCheckValidInput ==
    /\ pc = "check_valid_input"
    /\ ret' = check_valid_input(letter_guessed, old_letters_guessed)
    /\ pc' = "returned"
    /\ UNCHANGED <<word_list_path, first_round, index, secret_word,
                   old_letters_guessed, num_of_tries, letter_guessed, printed>>

SpecValid == InitValid /\ [][CallCheckValidInput]_vars

InitReveal ==
    /\ pc = "show_hidden_word"
    /\ secret_word \in StringsOver({97, 98, 65}, MaxWordLen)
    /\ old_letters_guessed \in ListsOver({97, 98, 99}, MaxListLen)
    /\ word_list_path = ""
    /\ first_round = TRUE
    /\ index = 0
    /\ num_of_tries = 0
    /\ letter_guessed = <<>>
    /\ ret = <<>>
    /\ printed = <<>>

CallShowHiddenWord ==
    /\ pc = "show_hidden_word"
    /\ ret' = show_hidden_word(secret_word, old_letters_guessed)
    /\ pc' = "returned"
    /\ UNCHANGED <<word_list_path, first_round, index, secret_word,
                   old_letters_guessed, num_of_tries, letter_guessed, printed>>

SpecReveal == InitReveal /\ [][CallShowHiddenWord]_vars

InitChoose ==
    /\ pc = "choose_word"
    /\ word_list_path \in Paths
    /\ index \in Indices
    /\ first_round = TRUE
    /\ secret_word = <<>>
    /\ old_letters_guessed = <<>>
    /\ num_of_tries = 0
    /\ letter_guessed = <<>>
    /\ ret = <<>>
    /\ printed = <<>>

CallChooseWord ==
    /\ pc = "choose_word"
    /\ ret' = choose_word(word_list_path, index)
    /\ pc' = "returned"
    /\ UNCHANGED <<word_list_path, first_round, index, secret_word,
                   old_letters_guessed, num_of_tries, letter_guessed, printed>>

SpecChoose == InitChoose /\ [][CallChooseWord]_vars

---------------------------------------------------------------------------
(* C7: check_valid_input(letter, guessed) is true iff letter is exactly    *)
(* one character, that character is in a-z, and letter is not in guessed;  *)
(* for every other str it is false.                                        *)
C7_ValidIffOneNewLowercaseLetter ==
    pc = "returned" =>
        /\ ret \in BOOLEAN
        /\ ret <=> /\ Len(letter_guessed) = 1
                   /\ letter_guessed[1] \in 97..122
                   /\ letter_guessed[1] \notin GuessedLetters

\* a new lowercase letter was found valid next to two guessed letters
C7_Witness ==
    /\ pc = "returned"
    /\ Len(letter_guessed) = 1
    /\ Len(old_letters_guessed) = 2
    /\ ret = TRUE

(* C8, as claimed: show_hidden_word(w, G) has the length of w, and its     *)
(* position p shows w[p] if w[p] is in G and '_' otherwise.                *)
C8_RevealHasLengthOfWord ==
    pc = "returned" =>
        /\ Len(ret) = Len(secret_word)
        /\ \A p \in 1..Len(secret_word) :
              ret[p] = IF secret_word[p] \in GuessedLetters THEN secret_word[p] ELSE 95

(* C8, amended: show_hidden_word(w, G) holds one character per position of *)
(* w, each two separated by one space (length 2 * len(w) - 1 for a         *)
(* non-empty w, 0 for the empty one); the character of position p is w[p]  *)
(* if w[p] is in G and '_' otherwise, so a letter is shown at each of its  *)
(* occurrences once it is in G.                                            *)
C8_RevealSpaced ==
    pc = "returned" =>
        /\ Len(ret) = IF secret_word = <<>> THEN 0 ELSE 2 * Len(secret_word) - 1
        /\ \A p \in 1..Len(secret_word) :
              ret[2 * p - 1] =
                 IF secret_word[p] \in GuessedLetters THEN secret_word[p] ELSE 95
        /\ \A p \in 1..(Len(secret_word) - 1) : ret[2 * p] = 32

\* "aba" with only a guessed, once: both occurrences of a are shown
C8_Witness ==
    /\ pc = "returned"
    /\ secret_word = <<97, 98, 97>>
    /\ old_letters_guessed = <<<<97>>>>
    /\ ret = <<97, 32, 95, 32, 97>>

\* the words of the current word-list file
WordsOfFile == Split(FileText(word_list_path))

(* C9: for a non-empty word list of length N and every integer index,      *)
(* choose_word raises nothing and returns the word at the zero-based       *)
(* position p in 0..N-1 with p congruent to index - 1 modulo N; the list   *)
(* cat, dog gives dog for index 0 and cat for index 3.                     *)
C9_ResolveIsCircular ==
    (pc = "returned" /\ Len(WordsOfFile) > 0) =>
        LET N == Len(WordsOfFile)
        IN  /\ ret.exc = "none"
            /\ \E p \in 0..(N - 1) :
                  /\ ret.val = WordsOfFile[p + 1]
                  /\ \E k \in (-(MaxIndex + 2))..(MaxIndex + 2) : index - 1 = k * N + p
            /\ (WordsOfFile = <<<<99, 97, 116>>, <<100, 111, 103>>>> /\ index = 0)
                  => ret.val = <<100, 111, 103>>
            /\ (WordsOfFile = <<<<99, 97, 116>>, <<100, 111, 103>>>> /\ index = 3)
                  => ret.val = <<99, 97, 116>>

\* index 0 on the list cat, dog gave dog
C9_Witness ==
    /\ pc = "returned"
    /\ WordsOfFile = <<<<99, 97, 116>>, <<100, 111, 103>>>>
    /\ index = 0
    /\ ret = [exc |-> "none", val |-> <<100, 111, 103>>]

(* C10: for a non-empty word list of length N and every integer i,         *)
(* choose_word(list, i) = choose_word(list, i + N) = choose_word(list,     *)
(* i - N).                                                                 *)
C10_ResolvePeriodN ==
    (pc = "returned" /\ Len(WordsOfFile) > 0) =>
        /\ choose_word(word_list_path, index + Len(WordsOfFile)) = ret
        /\ choose_word(word_list_path, index - Len(WordsOfFile)) = ret

\* a negative index was resolved on a list of three words
C10_Witness ==
    /\ pc = "returned"
    /\ Len(WordsOfFile) = 3
    /\ index < 0
    /\ ret.exc = "none"

---------------------------------------------------------------------------
(* C11: a word-list file with no word in it does not end the process: the  *)
(* step that resolves an index on it selects no secret word and leads      *)
(* back to the prompt for a word-list path.                                *)
C11_EmptyListReprompts ==
    [][(pc = "secret_word_index" /\ Len(WordsOfFile) = 0) =>
          /\ pc' = "word_list_path"
          /\ secret_word' = secret_word
      ]_vars

\* the state was left by hangman: by its entry or by a pass of its loop
InHangman ==
    pc \in {"guess", "play_again"} \/ (pc = "crashed" /\ printed # <<>>)

\* WIN or LOSE was reported in the playthrough going on
Reported ==
    /\ InHangman
    /\ InList(WIN_STR, printed) \/ InList(LOSE_STR, printed)

(* C12: once WIN or LOSE is reported the guess loop has ended and the      *)
(* program is at the prompt for another game: no state asks for a guess    *)
(* after the report, and the only step from there is the answer to that    *)
(* prompt, so no turn changes the guessed letters or the wrong-guess count *)
(* after the report.                                                       *)
C12_TerminalIsPermanent ==
    /\ [](Reported => pc = "play_again")
    /\ [][Reported => pc' \in {"switch_word_list", "quit"}]_vars

\* the playthrough of the word ab ended with WIN after b, a wrong c, and a
C12_Witness ==
    /\ Won
    /\ secret_word = <<97, 98>>
    /\ old_letters_guessed = <<<<98>>, <<99>>, <<97>>>>
    /\ num_of_tries = 1

(* C13: in every state of a playthrough the guessed list holds no letter   *)
(* twice and each entry is exactly one character of a-z; typing a letter   *)
(* that is in the list, in lowercase or in uppercase, leaves the list and  *)
(* the wrong-guess count as they are.                                      *)
C13_GuessedLettersDistinctLowercase ==
    InPlaythrough =>
        /\ \A i \in 1..Len(old_letters_guessed) :
              /\ Len(old_letters_guessed[i]) = 1
              /\ old_letters_guessed[i][1] \in 97..122
        /\ \A i, j \in 1..Len(old_letters_guessed) :
              i # j => old_letters_guessed[i] # old_letters_guessed[j]
        /\ AwaitingGuess =>
              \A c \in GuessedLetters : \A raw \in {<<c>>, <<c - 32>>} :
                  LET turn == hangman_turn(secret_word, old_letters_guessed,
                                           num_of_tries, raw)
                  IN  turn.old = old_letters_guessed /\ turn.num = num_of_tries

\* the wrong letter c is in the list, counted once, and a guess was rejected
C13_Witness ==
    /\ AwaitingGuess
    /\ old_letters_guessed = <<<<99>>>>
    /\ num_of_tries = 1
    /\ printed = <<X_STR, <<99>>>>

\* the pictures among the texts printed: "x" and a stage digit
PhotosPrinted ==
    {i \in 1..Len(printed) : Len(printed[i]) = 2 /\ printed[i][1] = 120}

(* C14: in every reachable state num_of_tries is an integer of 0..6, and   *)
(* every picture print_hangman was asked for is the one of a stage in      *)
(* 0..6, that of num_of_tries; no KeyError is raised.                      *)
C14_WrongCountWithinStages ==
    /\ num_of_tries \in 0..6
    /\ InHangman =>
          /\ ~InList(KEY_ERROR, printed)
          /\ \A i \in PhotosPrinted :
                /\ printed[i][2] - 48 \in 0..6
                /\ printed[i][2] - 48 = num_of_tries

\* the last stage was drawn at the sixth wrong guess
C14_Witness ==
    /\ Lost
    /\ num_of_tries = 6
    /\ printed[2] = <<120, 54>>

(* C15: every playthrough starts awaiting a guess with an empty guessed    *)
(* list and a wrong-guess count of 0, whatever an earlier playthrough      *)
(* left; during the playthrough the list and the count change only on a    *)
(* turn that accepts a guess, which appends one letter and adds at most 1  *)
(* to the count.                                                           *)
C15_FreshStateEachPlaythrough ==
    [][/\ (pc = "secret_word_index" /\ pc' # "crashed") =>
              /\ pc' = "guess"
              /\ old_letters_guessed' = <<>>
              /\ num_of_tries' = 0
       /\ pc = "guess" =>
              \/ /\ old_letters_guessed' = old_letters_guessed
                 /\ num_of_tries' = num_of_tries
              \/ /\ Len(old_letters_guessed') = Len(old_letters_guessed) + 1
                 /\ SubSeq(old_letters_guessed', 1, Len(old_letters_guessed))
                       = old_letters_guessed
                 /\ num_of_tries' \in {num_of_tries, num_of_tries + 1}
      ]_vars

\* a further round is about to start on the same word list, after a
\* playthrough that ended with six letters guessed and six wrong guesses
C15_Witness ==
    /\ pc = "secret_word_index"
    /\ printed = <<"Playing with the same word-list">>
    /\ Len(old_letters_guessed) = 6
    /\ num_of_tries = 6

---------------------------------------------------------------------------
(* A player who goes through the alphabet: the word of long.txt is played, *)
(* and each turn's input is the next letter of a..z not yet accepted, in   *)
(* lowercase or in uppercase, or the empty input.                          *)

AlphabetGuesses ==
    {<<97 + Len(old_letters_guessed)>>, <<65 + Len(old_letters_guessed)>>, <<>>}

NextAlphabet ==
    \/ ChangeWordList("long.txt")
    \/ ChangeSecretWord(1)
    \/ \E raw \in AlphabetGuesses : Guess(raw)
    \/ \E yes \in BOOLEAN : PlayAgain(yes)
    \/ \E yes \in BOOLEAN : SwitchWordList(yes)

SpecAlphabet == Init /\ [][NextAlphabet]_vars

\* some raw guess would still be accepted
AdmissibleGuessLeft == \E c \in 97..122 : c \notin GuessedLetters

\* the accepted guesses so far leave room within len(set(w)) + 5
WithinGuessBudget ==
    Len(old_letters_guessed) < Cardinality(LettersOf(secret_word)) + 5

(* C16: a playthrough ends with WIN or LOSE within len(set(w)) + 5         *)
(* accepted guesses, so a state still awaiting a guess has fewer accepted  *)
(* guesses than that, and it always has an admissible guess left: the loop *)
(* never waits for a guess with all 26 letters already guessed.            *)
C16_TerminatesNeverStuck ==
    AwaitingGuess => (WithinGuessBudget /\ AdmissibleGuessLeft)

(* C17: in every state awaiting a guess, a raw guess that is accepted      *)
(* appends exactly its lowercased letter to the guessed list and removes   *)
(* nothing, a rejected one leaves the list as it is; and every position of *)
(* the secret word that show_hidden_word shows before the turn is shown,   *)
(* with the same letter, after it.                                         *)
C17_GuessedLettersOnlyGrow ==
    AwaitingGuess =>
        \A raw \in RawGuesses :
            LET turn   == hangman_turn(secret_word, old_letters_guessed, num_of_tries, raw)
                before == show_hidden_word(secret_word, old_letters_guessed)
                after  == show_hidden_word(secret_word, turn.old)
            IN  /\ IF Inadmissible(raw)
                   THEN turn.old = old_letters_guessed
                   ELSE turn.old = Append(old_letters_guessed,
                                          <<IF raw[1] \in 65..90 THEN raw[1] + 32 ELSE raw[1]>>)
                /\ \A p \in 1..Len(secret_word) :
                      before[2 * p - 1] # 95 => after[2 * p - 1] = before[2 * p - 1]

\* the a of ab was guessed, then a wrong c: the a is still shown
C17_Witness ==
    /\ AwaitingGuess
    /\ secret_word = <<97, 98>>
    /\ old_letters_guessed = <<<<97>>, <<99>>>>
    /\ show_hidden_word(secret_word, old_letters_guessed) = <<97, 32, 95>>
    /\ printed[1] = SAD_FACE

====
